---- MODULE Spec2Model ----
(***************************************************************************)
(* Model of buildutil/linux.py: the Linux BuildEnvironment of fplutil.     *)
(*                                                                         *)
(* Python strings are sequences of one-character strings, so that          *)
(* shlex.split, os.path.join and str.split are computed character by       *)
(* character.  Names that the program never looks inside (environment      *)
(* variable names, dictionary keys, exception names) are TLA+ strings.     *)
(* A value that may be None is a record [set, val]: None has set = FALSE.  *)
(***************************************************************************)
EXTENDS Naturals, Sequences, FiniteSets, TLC

VARIABLES
    environ,     \* os.environ: variable name -> string
    files,       \* the file system: path -> "file" (regular, no x bit) or "exec"
    defaults,    \* the dict last returned by build_defaults, or NoDict
    parser,      \* the options registered on the argparse parser
    argv,        \* the command line last handed to parse_args
    namespace,   \* the Namespace parse_args returned, or NoDict
    arguments,   \* the object last handed to BuildEnvironment.__init__
    self,        \* the BuildEnvironment instance, or NoObject
    pc,          \* position of the caller: "idle", "running", "done"
    positional,  \* the positional arguments of the current run_cmake call
    gen,         \* run_cmake's gen parameter in the current call
    calls,       \* the invocations of the subprocess runner in the current call
    raised       \* the exception the last operation ended with, or NoError

vars == <<environ, files, defaults, parser, argv, namespace, arguments, self, pc,
          positional, gen, calls, raised>>

----------------------------------------------------------------------------
(* Bounds of the model. *)

\* Longest cmake_flags string drawn from FlagChars.
MaxFlagLen == 3
\* Largest exit status of the cmake subprocess.
MaxExitStatus == 2
\* Most options on a parsed command line.
MaxArgv == 2

----------------------------------------------------------------------------
(* Values. *)

None == [set |-> FALSE, val |-> <<>>]
Str(s) == [set |-> TRUE, val |-> s]

\* Python truth value of a string or None.
Truthy(o) == o.set /\ Len(o.val) > 0

\* Python's "a or b".
Or(a, b) == IF Truthy(a) THEN a ELSE b

Last(s) == s[Len(s)]

CMAKE_PATH_ENV_VAR == "CMAKE_PATH"
CMAKE_FLAGS_ENV_VAR == "CMAKE_FLAGS"
CMAKE_PATH == "cmake_path"
CMAKE_FLAGS == "cmake_flags"

UnixMakefiles == <<"U", "n", "i", "x", " ", "M", "a", "k", "e", "f", "i", "l", "e", "s">>
Ninja == <<"N", "i", "n", "j", "a">>
DashG == <<"-", "G">>
CmakeName == <<"c", "m", "a", "k", "e">>
ExampleFlags == <<"-", "D", "F", "O", "O", "=", "1", " ", "-", "D", "B", "A", "R", "=", "2">>
TokFoo == <<"-", "D", "F", "O", "O", "=", "1">>
TokBar == <<"-", "D", "B", "A", "R", "=", "2">>
PathAB == <<"/", "a", ":", "/", "b">>
PathBA == <<"/", "b", ":", "/", "a">>
PathA == <<"/", "a">>
FileA == <<"/", "a", "/", "c", "m", "a", "k", "e">>
FileB == <<"/", "b", "/", "c", "m", "a", "k", "e">>
FileX == <<"/", "x", "/", "c", "m", "a", "k", "e">>
ProjDir == <<"/", "p">>
ProjDir2 == <<"/", "q">>

NoError == "NoError"
NoDict == [type |-> "none", items |-> <<>>]
NoObject ==
    [constructed |-> FALSE, cmake_path |-> None, cmake_flags |-> None,
     project_directory |-> <<>>, posix |-> TRUE]

----------------------------------------------------------------------------
(* shlex.split(s, posix=...), as run_cmake calls it: comments off,         *)
(* whitespace_split on, no punctuation_chars.                              *)

whitespace == {" ", "\t", "\r", "\n"}
quotes == {"'", "\""}
escape == {"\\"}
escapedquotes == {"\""}
\* shlex.split clears the commenters.
commenters == {}
wordchars ==
    {"a", "b", "c", "d", "e", "f", "g", "h", "i", "j", "k", "l", "m", "n",
     "o", "p", "q", "r", "s", "t", "u", "v", "w", "x", "y", "z", "A", "B",
     "C", "D", "E", "F", "G", "H", "I", "J", "K", "L", "M", "N", "O", "P",
     "Q", "R", "S", "T", "U", "V", "W", "X", "Y", "Z", "0", "1", "2", "3",
     "4", "5", "6", "7", "8", "9", "_"}
whitespace_split == TRUE

\* instream.read(1) at end of input.
EOFCHAR == ""
\* The lexer state after end of input (Python's None).
StateNone == "None"

\* What read_token hands back: the raw token (None for the posix end of
\* input), the lexer's position and state, or the ValueError it raised.
TokenResult(tok, i, state, quoted, posix) ==
    [token  |-> IF posix /\ ~quoted /\ tok = <<>> THEN None ELSE Str(tok),
     i      |-> i,
     state  |-> state,
     error  |-> NoError]

TokenError(i) ==
    [token |-> None, i |-> i, state |-> StateNone, error |-> "ValueError"]

RECURSIVE read_token(_, _, _, _, _, _, _)
read_token(s, i, posix, state, token, quoted, escapedstate) ==
    LET nextchar == IF i <= Len(s) THEN s[i] ELSE EOFCHAR
        j == IF i <= Len(s) THEN i + 1 ELSE i
        emit(st) == TokenResult(token, j, st, quoted, posix)
        more(st, tok, q, es) == read_token(s, j, posix, st, tok, q, es)
    IN
    IF state = StateNone THEN
        TokenResult(<<>>, j, state, quoted, posix)
    ELSE IF state = " " THEN
        IF nextchar = EOFCHAR THEN emit(StateNone)
        ELSE IF nextchar \in whitespace THEN
            IF token # <<>> \/ (posix /\ quoted) THEN emit(state)
            ELSE more(state, token, quoted, escapedstate)
        ELSE IF nextchar \in commenters THEN
            more(state, token, quoted, escapedstate)
        ELSE IF posix /\ nextchar \in escape THEN
            more(nextchar, token, quoted, "a")
        ELSE IF nextchar \in wordchars THEN
            more("a", <<nextchar>>, quoted, escapedstate)
        ELSE IF nextchar \in quotes THEN
            more(nextchar, IF ~posix THEN <<nextchar>> ELSE token, quoted,
                 escapedstate)
        ELSE IF whitespace_split THEN
            more("a", <<nextchar>>, quoted, escapedstate)
        ELSE
            TokenResult(<<nextchar>>, j, state, quoted, posix)
    ELSE IF state \in quotes THEN
        IF nextchar = EOFCHAR THEN TokenError(j)
        ELSE IF nextchar = state THEN
            IF ~posix THEN
                TokenResult(Append(token, nextchar), j, " ", TRUE, posix)
            ELSE more("a", token, TRUE, escapedstate)
        ELSE IF posix /\ nextchar \in escape /\ state \in escapedquotes THEN
            more(nextchar, token, TRUE, state)
        ELSE more(state, Append(token, nextchar), TRUE, escapedstate)
    ELSE IF state \in escape THEN
        IF nextchar = EOFCHAR THEN TokenError(j)
        ELSE
            LET kept == IF escapedstate \in quotes /\ nextchar # state
                           /\ nextchar # escapedstate
                        THEN Append(token, state) ELSE token
            IN more(escapedstate, Append(kept, nextchar), quoted, escapedstate)
    ELSE \* state = "a"
        IF nextchar = EOFCHAR THEN emit(StateNone)
        ELSE IF nextchar \in whitespace THEN
            IF token # <<>> \/ (posix /\ quoted)
            THEN TokenResult(token, j, " ", quoted, posix)
            ELSE more(" ", token, quoted, escapedstate)
        ELSE IF nextchar \in commenters THEN
            more(IF posix THEN " " ELSE state, token, quoted, escapedstate)
        ELSE IF posix /\ nextchar \in quotes THEN
            more(nextchar, token, quoted, escapedstate)
        ELSE IF posix /\ nextchar \in escape THEN
            more(nextchar, token, quoted, "a")
        ELSE IF nextchar \in wordchars \/ nextchar \in quotes \/ whitespace_split
        THEN more(state, Append(token, nextchar), quoted, escapedstate)
        ELSE TokenResult(token, i, " ", quoted, posix)

\* list(lex): tokens are read until one equals lex.eof (None in posix mode,
\* '' otherwise); a ValueError from read_token leaves the iteration.
RECURSIVE shlex_tokens(_, _, _, _, _)
shlex_tokens(s, i, posix, state, acc) ==
    LET r == read_token(s, i, posix, state, <<>>, FALSE, " ")
        eof == IF posix THEN None ELSE Str(<<>>)
    IN
    IF r.error # NoError THEN [error |-> r.error, tokens |-> <<>>]
    ELSE IF r.token = eof THEN [error |-> NoError, tokens |-> acc]
    ELSE shlex_tokens(s, r.i, posix, r.state, Append(acc, r.token.val))

shlex_split(s, posix) == shlex_tokens(s, 1, posix, " ", <<>>)

----------------------------------------------------------------------------
(* The inputs the model draws from. *)

FlagChars == {"a", " ", "\"", "'", "\\"}

\* Every string over FlagChars of at most MaxFlagLen characters.
BoundedFlags == UNION {[1..n -> FlagChars] : n \in 0..MaxFlagLen}

FlagValues == {None, Str(ExampleFlags)} \cup {Str(f) : f \in BoundedFlags}

\* None, '', an executable, a file without the x bit, a missing path.
PathValues == {None, Str(<<>>), Str(FileA), Str(FileB), Str(FileX)}

Generators == {UnixMakefiles, Ninja}
ProjectDirectories == {ProjDir, ProjDir2}
ExitStatuses == 0..MaxExitStatus

\* The file system of the run_cmake specification.
RunFiles == (FileA :> "exec") @@ (FileB :> "file")

\* File systems: a file named cmake in the current directory, in /a, in /b.
FileSystems ==
    {(CmakeName :> c) @@ f :
        c \in {"missing", "file"},
        f \in [{FileA, FileB} -> {"missing", "file", "exec"}]}

\* Environments: PATH is set; CMAKE_PATH and CMAKE_FLAGS are unset, empty
\* or set.
EnvironValues ==
    {("PATH" :> sp) @@ cp @@ cf :
        sp \in {<<>>, PathAB, PathBA},
        cp \in {<<>>, CMAKE_PATH_ENV_VAR :> <<>>, CMAKE_PATH_ENV_VAR :> FileX},
        cf \in {<<>>, CMAKE_FLAGS_ENV_VAR :> <<>>,
                CMAKE_FLAGS_ENV_VAR :> ExampleFlags}}

OptionStrings == {"-c", "--cmake_path", "-F", "--cmake_flags"}
CommandLineValues == {<<>>, TokFoo}

\* Command lines: at most MaxArgv options, each with its value.
CommandLines ==
    UNION {[1..n -> OptionStrings \X CommandLineValues] : n \in 0..MaxArgv}

----------------------------------------------------------------------------
(* The operating system and the standard library. *)

FileKind(path) == IF path \in DOMAIN files THEN files[path] ELSE "missing"

\* os.path.isfile: a regular file, whatever its permission bits.
isfile(path) == FileKind(path) \in {"file", "exec"}

\* os.getenv(name)
getenv(name) == IF name \in DOMAIN environ THEN Str(environ[name]) ELSE None

\* os.path.join(a, b) on a POSIX host.
path_join(a, b) ==
    IF b # <<>> /\ b[1] = "/" THEN b
    ELSE IF a = <<>> \/ Last(a) = "/" THEN a \o b
    ELSE a \o <<"/">> \o b

\* s.split(sep) for a one-character separator.
RECURSIVE str_split(_, _, _, _)
str_split(s, sep, i, word) ==
    IF i > Len(s) THEN <<word>>
    ELSE IF s[i] = sep THEN <<word>> \o str_split(s, sep, i + 1, <<>>)
    ELSE str_split(s, sep, i + 1, Append(word, s[i]))

\* The first element of paths under which executable is a regular file.
RECURSIVE first_file(_, _, _)
first_file(paths, executable, k) ==
    IF k > Len(paths) THEN None
    ELSE IF isfile(path_join(paths[k], executable))
         THEN Str(path_join(paths[k], executable))
         ELSE first_file(paths, executable, k + 1)

\* distutils.spawn.find_executable(executable), with PATH in the environment.
find_executable(executable) ==
    IF isfile(executable) THEN Str(executable)
    ELSE first_file(str_split(environ["PATH"], ":", 1, <<>>), executable, 1)

Dict(items) == [type |-> "dict", items |-> items]
Namespace(items) == [type |-> "Namespace", items |-> items]

\* d[key] = value
SetItem(d, key, value) == [d EXCEPT !.items = (key :> value) @@ d.items]

\* arguments[key]: the value, or the exception raised.
GetItem(d, key) ==
    IF d.type # "dict" THEN [error |-> "TypeError", value |-> None]
    ELSE IF key \notin DOMAIN d.items THEN [error |-> "KeyError", value |-> None]
    ELSE [error |-> NoError, value |-> d.items[key]]

\* vars(obj): the attribute dictionary of an object; a dict has none.
Vars(obj) ==
    IF obj.type = "Namespace"
    THEN [error |-> NoError, value |-> Dict(obj.items)]
    ELSE [error |-> "TypeError", value |-> NoDict]

\* ArgumentParser.parse_args: every dest starts at its option's default,
\* then each option of the command line stores its value, in order.
RECURSIVE store_options(_, _, _, _)
store_options(options, line, k, ns) ==
    IF k > Len(line) THEN ns
    ELSE LET o == CHOOSE o \in options : line[k][1] \in o.option_strings
         IN store_options(options, line, k + 1,
                          (o.dest :> Str(line[k][2])) @@ ns)

parse_args(options, line) ==
    Namespace(store_options(options, line, 1,
        [d \in {o.dest : o \in options} |->
            (CHOOSE o \in options : o.dest = d).default]))

----------------------------------------------------------------------------
(* The shared base class (buildutil/common.py). *)

\* common.BuildEnvironment.build_defaults(): the base defaults.
common_build_defaults == Dict(<<>>)

\* common.BuildEnvironment.__init__(arguments): the base fields.
common_init(args, posix) ==
    [constructed |-> TRUE, cmake_path |-> None, cmake_flags |-> None,
     project_directory |-> ProjDir, posix |-> posix]

\* common.BuildEnvironment._check_binary(name, path): the error it raises.
check_binary(name, path) ==
    IF Truthy(path) /\ FileKind(path.val) = "exec"
    THEN NoError
    ELSE "ToolPathError"

\* One invocation of common.BuildEnvironment.run_subprocess(args, cwd=cwd):
\* the child was launched or could not be.
Invocation(args, cwd, launched) ==
    [args |-> args, cwd |-> cwd,
     state |-> IF launched THEN "running" ELSE "failed", status |-> 0]

\* run_subprocess, once the child has exited with the given status.
run_subprocess_result(status) ==
    IF status = 0 THEN NoError ELSE "SubCommandError"

----------------------------------------------------------------------------
(* BuildEnvironment.__init__, build_defaults and add_arguments. *)

\* Lines 68-71: the dictionary the fields are read from.
init_args_always_vars(args) == Vars(args)
init_args(args) ==
    IF args.type = "dict" THEN [error |-> NoError, value |-> args]
    ELSE Vars(args)

\* Lines 66-74: the new object, or the exception raised.
init_object(args, posix) ==
    LET d == init_args(args)
        p == GetItem(d.value, CMAKE_PATH)
        f == GetItem(d.value, CMAKE_FLAGS)
        base == common_init(args, posix)
    IN IF d.error # NoError THEN [error |-> d.error, object |-> NoObject]
       ELSE IF p.error # NoError THEN [error |-> p.error, object |-> NoObject]
       ELSE IF f.error # NoError THEN [error |-> f.error, object |-> NoObject]
       ELSE [error  |-> NoError,
             object |-> [base EXCEPT !.cmake_path = p.value,
                                     !.cmake_flags = f.value]]

\* Lines 83-89.
build_defaults_value ==
    SetItem(SetItem(common_build_defaults, CMAKE_PATH,
                    Or(getenv(CMAKE_PATH_ENV_VAR), find_executable(CmakeName))),
            CMAKE_FLAGS, getenv(CMAKE_FLAGS_ENV_VAR))

\* Lines 105-110: the two options registered, with their defaults.
registered_options_same_dest(d) ==
    {[option_strings |-> {"-c", "--cmake_path"}, dest |-> CMAKE_PATH,
      default |-> d.items[CMAKE_PATH]],
     [option_strings |-> {"-F", "--cmake_flags"}, dest |-> CMAKE_PATH,
      default |-> d.items[CMAKE_FLAGS]]}
registered_options(d) ==
    {[option_strings |-> {"-c", "--cmake_path"}, dest |-> CMAKE_PATH,
      default |-> d.items[CMAKE_PATH]],
     [option_strings |-> {"-F", "--cmake_flags"}, dest |-> CMAKE_FLAGS,
      default |-> d.items[CMAKE_FLAGS]]}

build_defaults ==
    /\ ~self.constructed
    /\ parser = {}
    /\ defaults' = build_defaults_value
    /\ UNCHANGED <<environ, files, parser, argv, namespace, arguments, self,
                   pc, positional, gen, calls, raised>>

add_arguments ==
    /\ ~self.constructed
    /\ parser = {}
    /\ defaults' = build_defaults_value
    /\ parser' = parser \cup registered_options(defaults')
    /\ UNCHANGED <<environ, files, argv, namespace, arguments, self, pc,
                   positional, gen, calls, raised>>

\* The calling code parses the command line with the parser.
parse_command_line(line) ==
    /\ ~self.constructed
    /\ parser # {}
    /\ namespace = NoDict
    /\ argv' = line
    /\ namespace' = parse_args(parser, line)
    /\ UNCHANGED <<environ, files, defaults, parser, arguments, self, pc,
                   positional, gen, calls, raised>>

\* BuildEnvironment(arguments), with the parsed arguments when there are
\* any, else with the defaults; handed over as a dict or as an object with
\* the same names.
construct(type, posix) ==
    /\ ~self.constructed
    /\ raised = NoError
    /\ defaults # NoDict
    /\ arguments' = [type  |-> type,
                     items |-> IF namespace # NoDict THEN namespace.items
                               ELSE defaults.items]
    /\ LET r == init_object(arguments', posix)
       IN /\ self' = r.object
          /\ raised' = r.error
    /\ UNCHANGED <<environ, files, defaults, parser, argv, namespace, pc,
                   positional, gen, calls>>

----------------------------------------------------------------------------
(* BuildEnvironment.run_cmake. *)

\* Line 127: the binary check, on the field as it is at the call.
run_cmake_check_missing(obj) == NoError
run_cmake_check(obj) == check_binary("cmake", obj.cmake_path)

\* Lines 129-134: the argument vector and the working directory handed to
\* run_subprocess, or the ValueError of shlex.split.
run_cmake_invocation_untested_flags(obj, g) ==
    [error |-> NoError,
     args  |-> <<obj.cmake_path.val, DashG, g>> \o <<obj.cmake_flags.val>>
               \o <<obj.project_directory>>,
     cwd   |-> obj.project_directory]
run_cmake_invocation_default_posix(obj, g) ==
    LET split == IF Truthy(obj.cmake_flags)
                 THEN shlex_split(obj.cmake_flags.val, TRUE)
                 ELSE [error |-> NoError, tokens |-> <<>>]
    IN [error |-> split.error,
        args  |-> <<obj.cmake_path.val, DashG, g>> \o split.tokens
                  \o <<obj.project_directory>>,
        cwd   |-> obj.project_directory]
run_cmake_invocation_directory_first(obj, g) ==
    LET split == IF Truthy(obj.cmake_flags)
                 THEN shlex_split(obj.cmake_flags.val, obj.posix)
                 ELSE [error |-> NoError, tokens |-> <<>>]
    IN [error |-> split.error,
        args  |-> <<obj.cmake_path.val, DashG, g>>
                  \o <<obj.project_directory>> \o split.tokens,
        cwd   |-> obj.project_directory]
run_cmake_invocation(obj, g) ==
    LET split == IF Truthy(obj.cmake_flags)
                 THEN shlex_split(obj.cmake_flags.val, obj.posix)
                 ELSE [error |-> NoError, tokens |-> <<>>]
    IN [error |-> split.error,
        args  |-> <<obj.cmake_path.val, DashG, g>> \o split.tokens
                  \o <<obj.project_directory>>,
        cwd   |-> obj.project_directory]

\* The call, up to the point where it waits for the child.  given is FALSE
\* when the gen argument is omitted.  attempts, launch_error and after are
\* what the code fixes at line 134: one invocation of run_subprocess, whose
\* exception propagates, and no assignment to the fields.
run_cmake_call(given, g, attempts, launch_error, after) ==
    /\ pc = "idle"
    /\ self.constructed
    /\ positional' = (IF given THEN <<g>> ELSE <<>>)
    /\ gen' = (IF given THEN g ELSE UnixMakefiles)
    /\ LET chk == run_cmake_check(self)
           inv == run_cmake_invocation(self, gen')
       IN
       IF chk # NoError THEN
           /\ raised' = chk
           /\ pc' = "done"
           /\ calls' = <<>>
           /\ self' = self
       ELSE IF inv.error # NoError THEN
           /\ raised' = inv.error
           /\ pc' = "done"
           /\ calls' = <<>>
           /\ self' = self
       ELSE
           \E launched \in BOOLEAN :
               /\ calls' = IF launched
                           THEN <<Invocation(inv.args, inv.cwd, TRUE)>>
                           ELSE [k \in 1..attempts |->
                                    Invocation(inv.args, inv.cwd, FALSE)]
               /\ pc' = IF launched THEN "running" ELSE "done"
               /\ raised' = IF launched THEN NoError ELSE launch_error
               /\ self' = after
    /\ UNCHANGED <<environ, files, defaults, parser, argv, namespace, arguments>>

run_cmake_retry(given, g) ==
    run_cmake_call(given, g, 2, "SubCommandError", self)
run_cmake_swallow(given, g) ==
    run_cmake_call(given, g, 1, NoError, self)
run_cmake_consume_flags(given, g) ==
    run_cmake_call(given, g, 1, "SubCommandError",
                   [self EXCEPT !.cmake_flags = None])
run_cmake(given, g) ==
    run_cmake_call(given, g, 1, "SubCommandError", self)

\* run_subprocess returns or raises when the child exits (line 134); the
\* exception leaves run_cmake unchanged.
subprocess_exit(status) ==
    /\ pc = "running"
    /\ calls' = [calls EXCEPT ![1].state = "exited", ![1].status = status]
    /\ raised' = run_subprocess_result(status)
    /\ pc' = "done"
    /\ UNCHANGED <<environ, files, defaults, parser, argv, namespace, arguments, self,
                   positional, gen>>

\* Control is back in the calling code.
run_cmake_return ==
    /\ pc = "done"
    /\ self.constructed
    /\ pc' = "idle"
    /\ positional' = <<>>
    /\ gen' = <<>>
    /\ calls' = <<>>
    /\ raised' = NoError
    /\ UNCHANGED <<environ, files, defaults, parser, argv, namespace, arguments, self>>

\* The calling code assigns the fields between calls.
set_cmake_path(p) ==
    /\ pc = "idle"
    /\ self.constructed
    /\ self' = [self EXCEPT !.cmake_path = p]
    /\ UNCHANGED <<environ, files, defaults, parser, argv, namespace, arguments, pc,
                   positional, gen, calls, raised>>

set_cmake_flags(f) ==
    /\ pc = "idle"
    /\ self.constructed
    /\ self' = [self EXCEPT !.cmake_flags = f]
    /\ UNCHANGED <<environ, files, defaults, parser, argv, namespace, arguments, pc,
                   positional, gen, calls, raised>>

----------------------------------------------------------------------------
(* The run_cmake specification: an environment constructed from a resolved *)
(* configuration, fields assigned by the calling code, calls to run_cmake. *)

Init ==
    /\ environ = <<>>
    /\ files = RunFiles
    /\ defaults = NoDict
    /\ parser = {}
    /\ argv = <<>>
    /\ namespace = NoDict
    /\ arguments = NoDict
    /\ self \in {[constructed |-> TRUE, cmake_path |-> p, cmake_flags |-> f,
                  project_directory |-> d, posix |-> x] :
                    p \in {None, Str(FileA)},
                    f \in {None, Str(ExampleFlags)},
                    d \in ProjectDirectories, x \in BOOLEAN}
    /\ pc = "idle"
    /\ positional = <<>>
    /\ gen = <<>>
    /\ calls = <<>>
    /\ raised = NoError

Next ==
    \/ \E p \in PathValues : set_cmake_path(p)
    \/ \E f \in FlagValues : set_cmake_flags(f)
    \/ run_cmake(FALSE, UnixMakefiles)
    \/ \E g \in Generators : run_cmake(TRUE, g)
    \/ \E status \in ExitStatuses : subprocess_exit(status)
    \/ run_cmake_return

Spec == Init /\ [][Next]_vars

----------------------------------------------------------------------------
(* The configuration specification: an environment and a file system, the  *)
(* defaults, the parser, a command line, and the construction.              *)

InitConfig ==
    /\ environ \in EnvironValues
    /\ files \in FileSystems
    /\ defaults = NoDict
    /\ parser = {}
    /\ argv = <<>>
    /\ namespace = NoDict
    /\ arguments = NoDict
    /\ self = NoObject
    /\ pc = "idle"
    /\ positional = <<>>
    /\ gen = <<>>
    /\ calls = <<>>
    /\ raised = NoError

NextConfig ==
    \/ build_defaults
    \/ add_arguments
    \/ \E line \in CommandLines : parse_command_line(line)
    \/ \E type \in {"dict", "Namespace"} : construct(type, TRUE)

SpecConfig == InitConfig /\ [][NextConfig]_vars

----------------------------------------------------------------------------
(* Properties of run_cmake. *)

\* The generator the caller asked for: "Unix Makefiles" when the argument
\* is omitted.
RequestedGenerator ==
    IF positional = <<>> THEN UnixMakefiles ELSE positional[1]

BinaryUsable ==
    /\ self.cmake_path.set
    /\ self.cmake_path.val # <<>>
    /\ self.cmake_path.val \in DOMAIN files
    /\ files[self.cmake_path.val] = "exec"

\* C1: a run_cmake call made while cmake_path is None, empty, missing on
\* disk or not executable ends with ToolPathError and the subprocess runner
\* is never invoked; so whenever the runner was invoked the check had passed.
C1_CheckBeforeSpawn ==
    (pc # "idle" /\ ~BinaryUsable) =>
        (pc = "done" /\ raised = "ToolPathError" /\ calls = <<>>)

C1_Witness ==
    /\ pc = "done"
    /\ raised = "ToolPathError"
    /\ self.cmake_path = Str(FileB)
    /\ calls = <<>>

\* C2: when the binary check passes, run_cmake ends with SubCommandError
\* exactly when the subprocess could not be launched or exited with a
\* non-zero status, and ends without error when it exited with status 0.
C2_SubCommandError ==
    (pc = "done" /\ BinaryUsable) =>
        /\ raised = "SubCommandError" <=>
              /\ calls # <<>>
              /\ \/ calls[1].state = "failed"
                 \/ calls[1].state = "exited" /\ calls[1].status # 0
        /\ (calls # <<>> /\ calls[1].state = "exited" /\ calls[1].status = 0)
              => raised = NoError

C2_Witness ==
    /\ pc = "done"
    /\ calls # <<>>
    /\ calls[1].state = "exited"
    /\ calls[1].status = 1
    /\ raised = "SubCommandError"

\* C3: with cmake_flags None or '' and a usable binary, the runner is
\* invoked with exactly [cmake_path, "-G", generator, project_directory].
C3_NoFlagsVector ==
    (pc # "idle" /\ BinaryUsable /\ ~Truthy(self.cmake_flags)) =>
        /\ Len(calls) = 1
        /\ calls[1].args = <<self.cmake_path.val, DashG, RequestedGenerator,
                             self.project_directory>>

C3_Witness ==
    /\ pc = "running"
    /\ self.cmake_flags = Str(<<>>)
    /\ positional = <<Ninja>>
    /\ calls[1].args = <<FileA, DashG, Ninja, self.project_directory>>

C5_ProjectDirectory ==
    \A k \in 1..Len(calls) :
        /\ calls[k].cwd = self.project_directory
        /\ Last(calls[k].args) = self.project_directory

C5_Witness ==
    /\ calls # <<>>
    /\ self.cmake_flags = Str(<<"a", " ", "a">>)
    /\ Len(calls[1].args) = 6
    /\ calls[1].cwd = ProjDir2

\* C6: a call invokes the runner at most once; after a failed launch or a
\* non-zero exit the call is over, with that single invocation, made with
\* the generator the caller asked for.
C6_OneShot ==
    /\ Len(calls) <= 1
    /\ raised = "SubCommandError" =>
          /\ pc = "done"
          /\ Len(calls) = 1
          /\ calls[1].state \in {"failed", "exited"}
          /\ calls[1].args[3] = RequestedGenerator

C6_Witness ==
    /\ pc = "done"
    /\ raised = "SubCommandError"
    /\ Len(calls) = 1
    /\ calls[1].state = "failed"

\* C10: no step of run_cmake changes cmake_path, cmake_flags or the project
\* directory: they change only while the calling code has control.
C10_FieldsUnchanged ==
    [][(pc # "idle" \/ pc' # "idle") => self' = self]_vars

C10_Witness ==
    /\ pc = "done"
    /\ raised = "SubCommandError"
    /\ self.cmake_path = Str(FileA)
    /\ self.cmake_flags = Str(<<"a">>)

----------------------------------------------------------------------------
(* Properties of the configuration. *)

\* The directories of the executable search path, in order.
SearchPath == str_split(environ["PATH"], ":", 1, <<>>)

\* The places on the search path that hold an executable named cmake.
ExecutablesOnPath ==
    {k \in 1..Len(SearchPath) :
        FileKind(path_join(SearchPath[k], CmakeName)) = "exec"}

FirstExecutableOnPath ==
    LET k == CHOOSE k \in ExecutablesOnPath :
                 \A m \in ExecutablesOnPath : k <= m
    IN path_join(SearchPath[k], CmakeName)

\* C7: the cmake_path default is CMAKE_PATH when set and non-empty, as the
\* exact string; otherwise the first executable named cmake on the
\* executable search path; otherwise None.
C7_DefaultCmakePath ==
    defaults # NoDict =>
        defaults.items[CMAKE_PATH] =
            IF CMAKE_PATH_ENV_VAR \in DOMAIN environ
               /\ environ[CMAKE_PATH_ENV_VAR] # <<>>
            THEN Str(environ[CMAKE_PATH_ENV_VAR])
            ELSE IF ExecutablesOnPath # {} THEN Str(FirstExecutableOnPath)
            ELSE None

\* The places of a command line where one of the given option strings
\* stands, and the value at the last of them.
Given(option_strings) ==
    {k \in 1..Len(argv) : argv[k][1] \in option_strings}

LastGiven(option_strings) ==
    LET k == CHOOSE k \in Given(option_strings) :
                 \A m \in Given(option_strings) : m <= k
    IN argv[k][2]

\* C8: after parsing, cmake_flags is exactly the string given with -F or
\* --cmake_flags and cmake_path the path given with -c or --cmake_path; a
\* field whose option is not given has the build_defaults value, which for
\* cmake_flags is CMAKE_FLAGS when set and None otherwise.
C8_CommandLineOverDefault ==
    namespace # NoDict =>
        /\ DOMAIN namespace.items = {CMAKE_PATH, CMAKE_FLAGS}
        /\ namespace.items[CMAKE_FLAGS] =
              IF Given({"-F", "--cmake_flags"}) # {}
              THEN Str(LastGiven({"-F", "--cmake_flags"}))
              ELSE defaults.items[CMAKE_FLAGS]
        /\ namespace.items[CMAKE_PATH] =
              IF Given({"-c", "--cmake_path"}) # {}
              THEN Str(LastGiven({"-c", "--cmake_path"}))
              ELSE defaults.items[CMAKE_PATH]
        /\ defaults.items[CMAKE_FLAGS] =
              IF CMAKE_FLAGS_ENV_VAR \in DOMAIN environ
              THEN Str(environ[CMAKE_FLAGS_ENV_VAR]) ELSE None

C8_Witness ==
    /\ namespace # NoDict
    /\ argv = << <<"-F", TokFoo>> >>
    /\ CMAKE_FLAGS_ENV_VAR \in DOMAIN environ
    /\ environ[CMAKE_FLAGS_ENV_VAR] = ExampleFlags
    /\ namespace.items[CMAKE_FLAGS] = Str(TokFoo)
    /\ namespace.items[CMAKE_PATH] = defaults.items[CMAKE_PATH]

\* C9: construction from a dict and from an object with the same names
\* both succeed, and the fields are the values under cmake_path and
\* cmake_flags.
C9_BothRepresentations ==
    (arguments # NoDict
     /\ {CMAKE_PATH, CMAKE_FLAGS} \subseteq DOMAIN arguments.items) =>
        /\ raised = NoError
        /\ self.constructed
        /\ self.cmake_path = arguments.items[CMAKE_PATH]
        /\ self.cmake_flags = arguments.items[CMAKE_FLAGS]

C9_Witness ==
    /\ arguments.type = "dict"
    /\ self.constructed
    /\ self.cmake_path = Str(FileX)
    /\ self.cmake_flags = Str(TokFoo)
====
